---------------------------- MODULE Spec2Model ----------------------------
(***************************************************************************)
(* A model of kenchi's outlier detectors and pipeline:                     *)
(*   - FastABOD        (kenchi/outlier_detection/angle_based.py)           *)
(*   - KNN             (kenchi/outlier_detection/distance_based.py)        *)
(*   - OneTimeSampling (kenchi/outlier_detection/distance_based.py)        *)
(*   - Pipeline        (kenchi/pipeline.py)                                *)
(*                                                                         *)
(* Conventions.  A data matrix has one feature column, so a row is an     *)
(* integer, a matrix is a sequence of integers, a dot product is a        *)
(* product and the euclidean / minkowski(p=2) distance is |a - b|.        *)
(* Row indices are 1-based here (Python's index i is i + 1).  Floating    *)
(* point values are modelled by exact rationals <<num, den>>, den > 0;    *)
(* <<0, 0>> is NaN.  Python's None argument is an "isNone" flag beside    *)
(* the value.                                                              *)
(***************************************************************************)
EXTENDS Integers, Sequences, FiniteSets, TLC

VARIABLES
    (* FastABOD *)
    abod,       \* [fitted, X, has_thr, threshold_]: _knn._fit_X and threshold_
    n_jobs,     \* FastABOD.n_jobs
    abod_k,     \* n_neighbors given to NearestNeighbors(**kwargs)
    job,        \* the anomaly_score call in flight (Parallel tasks)
    outcome,    \* what the last finished FastABOD call returned or raised
    abod_fit_ok, \* history: a fit of the FastABOD engine has succeeded
    (* KNN *)
    knn,        \* [fitted, X]: the _knn attribute and its _fit_X
    knn_weight, \* KNN.weight
    knn_k,      \* KNN.n_neighbors
    knn_out,    \* what the last KNN call returned or raised
    (* OneTimeSampling, two instances with the same parameters *)
    ots,        \* per instance: X_, sampled_, _metric and whether each is set
    ots_m,      \* OneTimeSampling.n_samples
    rs_kind,    \* random_state is None, an int, or a RandomState instance
    rs_seed,    \* the int seed (or the seed the RandomState was built from)
    own_rng,    \* per instance: state of its RandomState instance
    global_rng, \* state of numpy's global RandomState
    ots_out,    \* per instance: what its last call returned or raised
    (* Pipeline *)
    steps,      \* Pipeline.steps: the estimators, the last one the final one
    pipe_out    \* what the last Pipeline.anomaly_score call did

abodVars == <<abod, n_jobs, abod_k, job, outcome, abod_fit_ok>>
knnVars == <<knn, knn_weight, knn_k, knn_out>>
otsVars == <<ots, ots_m, rs_kind, rs_seed, own_rng, global_rng, ots_out>>
pipeVars == <<steps, pipe_out>>

vars == <<abodVars, knnVars, otsVars, pipeVars>>

-----------------------------------------------------------------------------
(* Exact rationals standing for floats.                                    *)

Abs(x) == IF x < 0 THEN -x ELSE x

RECURSIVE GCD(_, _)
GCD(a, b) == IF b = 0 THEN a ELSE GCD(b, a % b)

Rat(n, d) ==
    LET g == GCD(Abs(n), Abs(d))
        s == IF d < 0 THEN -1 ELSE 1
    IN  <<(s * n) \div g, (s * d) \div g>>

NaN == <<0, 0>>
IsNaN(r) == r[2] = 0
RInt(i) == <<i, 1>>

RAdd(a, b) ==
    IF IsNaN(a) \/ IsNaN(b) THEN NaN
    ELSE LET l == (a[2] \div GCD(a[2], b[2])) * b[2]
         IN  Rat(a[1] * (l \div a[2]) + b[1] * (l \div b[2]), l)

RNeg(a) == IF IsNaN(a) THEN NaN ELSE <<-a[1], a[2]>>
RSub(a, b) == RAdd(a, RNeg(b))

RMul(a, b) ==
    IF IsNaN(a) \/ IsNaN(b) THEN NaN
    ELSE LET g1 == GCD(Abs(a[1]), b[2])
             g2 == GCD(Abs(b[1]), a[2])
             h1 == IF g1 = 0 THEN 1 ELSE g1
             h2 == IF g2 = 0 THEN 1 ELSE g2
         IN  Rat((a[1] \div h1) * (b[1] \div h2), (a[2] \div h2) * (b[2] \div h1))

RLeq(a, b) == a[1] * b[2] <= b[1] * a[2]

RECURSIVE RSum(_)
RSum(s) == IF s = <<>> THEN RInt(0) ELSE RAdd(Head(s), RSum(Tail(s)))

(* np.var(row): the mean of the squared deviations from the mean.          *)
Var(s) ==
    LET m   == Len(s)
        mu  == RMul(RSum(s), <<1, m>>)
        dev == [i \in 1..m |-> RMul(RSub(s[i], mu), RSub(s[i], mu))]
    IN  RMul(RSum(dev), <<1, m>>)


RECURSIVE SortRat(_)
SortRat(s) ==
    IF s = <<>> THEN <<>>
    ELSE LET i == CHOOSE i \in 1..Len(s) : \A j \in 1..Len(s) : RLeq(s[i], s[j])
         IN  <<s[i]>> \o SortRat([j \in 1..(Len(s) - 1) |-> IF j < i THEN s[j] ELSE s[j + 1]])

-----------------------------------------------------------------------------
(* Bounds of the model and the inputs the operations are called with.      *)

MaxJobs == 3
MaxK == 3
MaxSamples == 2
MaxSeed == 1
MaxSteps == 3

(* FastABOD's default fpr = 0.01 as the fraction FprNum / FprDen.          *)
FprNum == 1
FprDen == 100

JobsValues == {-1} \cup (1..MaxJobs)

(* Training sets: two that fit, one with a duplicated row (a zero          *)
(* difference vector among the neighbours), one too small for k + 1.       *)
ABOD_TrainSets == {<<0, 1, 2, 4>>, <<0, 1, 2, 4, 6>>, <<0, 2, 2, 5>>, <<0, 4>>}

(* Query sets: disjoint from the training sets, and with a training row.   *)
ABOD_QuerySets == {<<3, 5, 8>>, <<5, 3, 8>>, <<3, 4, 8>>, <<7>>}

-----------------------------------------------------------------------------
(* sklearn.neighbors.NearestNeighbors, as FastABOD and KNN use it.         *)

Dist(a, b) == Abs(a - b)

(* Whether reference row i comes before row j for query point p.  Equal    *)
(* distances are ordered by the backend; tb is the order it happens to use.*)
Before(X, p, i, j, tb) ==
    \/ Dist(X[i], p) < Dist(X[j], p)
    \/ /\ Dist(X[i], p) = Dist(X[j], p)
       /\ IF tb = "lo" THEN i <= j ELSE i >= j

RECURSIVE KNearest(_, _, _, _, _)
KNearest(X, p, cand, k, tb) ==
    IF k = 0 \/ cand = {} THEN <<>>
    ELSE LET b == CHOOSE i \in cand : \A j \in cand : Before(X, p, i, j, tb)
         IN  <<b>> \o KNearest(X, p, cand \ {b}, k - 1, tb)

DropAt(s, i) == [j \in 1..(Len(s) - 1) |-> IF j < i THEN s[j] ELSE s[j + 1]]

(* kneighbors(X=None): k + 1 neighbours of every training row, then the    *)
(* row itself is masked out, or the first neighbour when the row is not    *)
(* among them (more than k duplicates).                                    *)
SelfExcluded(X, r, k, tb) ==
    LET nb == KNearest(X, X[r], 1..Len(X), k + 1, tb)
    IN  IF \E c \in 1..Len(nb) : nb[c] = r
        THEN DropAt(nb, CHOOSE c \in 1..Len(nb) : nb[c] = r)
        ELSE DropAt(nb, 1)

(* kneighbors raises ValueError unless n_neighbors <= n_samples, with      *)
(* n_neighbors one more when X is None.                                    *)
KNeighborsOk(fitX, isNone, k) == (IF isNone THEN k + 1 ELSE k) <= Len(fitX)

kneighbors(fitX, isNone, X, k, tb) ==
    IF isNone
    THEN [r \in 1..Len(fitX) |-> SelfExcluded(fitX, r, k, tb)]
    ELSE [r \in 1..Len(X) |-> KNearest(fitX, X[r], 1..Len(fitX), k, tb)]

-----------------------------------------------------------------------------
(* FastABOD                                                                *)

(* sklearn.utils.gen_even_slices(n, n_packs): contiguous slices <<lo, hi>> *)
(* (rows lo..hi), the first n % n_packs one row longer, empty ones         *)
(* skipped.  It raises ValueError when n_packs < 1 (GenSlicesOk).          *)
GenSlicesOk(n, n_packs) == n_packs >= 1

RECURSIVE GenFrom(_, _, _, _)
GenFrom(n, n_packs, pack_num, start) ==
    IF pack_num >= n_packs THEN <<>>
    ELSE LET this_n == (n \div n_packs) + (IF pack_num < n % n_packs THEN 1 ELSE 0)
         IN  IF this_n > 0
             THEN <<<<start, start + this_n - 1>>>>
                      \o GenFrom(n, n_packs, pack_num + 1, start + this_n)
             ELSE GenFrom(n, n_packs, pack_num + 1, start)

gen_even_slices(n, n_packs) == GenFrom(n, n_packs, 0, 1)

(* (pa @ pb) / (pa @ pa) / (pb @ pb) under np.errstate(invalid='raise').   *)
(* A zero pa or pb makes the numerator 0 as well, so the division is 0/0,  *)
(* an invalid operation: FloatingPointError (ok = FALSE).                  *)
Ratio(pa, pb) ==
    IF pa * pa = 0 \/ pb * pb = 0
    THEN [ok |-> FALSE, val |-> NaN]
    ELSE [ok |-> TRUE, val |-> RMul(Rat(pa * pb, pa * pa), Rat(1, pb * pb))]

(* combinations(X_train[ind_p] - p, 2) in itertools' order.                *)
RowRatios(X_train, p, ind_p) ==
    LET k  == Len(ind_p)
        d  == [i \in 1..k |-> X_train[ind_p[i]] - p]
        pr == {<<a, b>> \in (1..k) \X (1..k) : a < b}
        RECURSIVE Lst(_)
        Lst(S) == IF S = {} THEN <<>>
                  ELSE LET m == CHOOSE x \in S : \A y \in S :
                                    x[1] < y[1] \/ (x[1] = y[1] /\ x[2] <= y[2])
                       IN  <<Ratio(d[m[1]], d[m[2]])>> \o Lst(S \ {m})
    IN  Lst(pr)

(* A variant of _abof without errstate(invalid='raise'): NaN scores.       *)
AbofNoRaise(X_train, X, ind) ==
    LET rr == [r \in 1..Len(X) |-> RowRatios(X_train, X[r], ind[r])]
    IN  [raised |-> FALSE,
         val |-> [r \in 1..Len(X) |->
                    IF \E i \in 1..Len(rr[r]) : ~rr[r][i].ok THEN NaN
                    ELSE Var([i \in 1..Len(rr[r]) |-> rr[r][i].val])]]

(* _abof(X_train, X, ind): the variance of the ratios, row by row; raises  *)
(* FloatingPointError when any ratio is invalid.                           *)
Abof(X_train, X, ind) ==
    LET rr == [r \in 1..Len(X) |-> RowRatios(X_train, X[r], ind[r])]
    IN  IF \E r \in 1..Len(X) : \E i \in 1..Len(rr[r]) : ~rr[r][i].ok
        THEN [raised |-> TRUE, val |-> <<>>]
        ELSE [raised |-> FALSE,
              val |-> [r \in 1..Len(X) |-> Var([i \in 1..Len(rr[r]) |-> rr[r][i].val])]]

SubSeqOf(s, sl) == SubSeq(s, sl[1], sl[2])

(* np.concatenate(result) with the results taken in completion order.      *)
RECURSIVE ConcatByCompletion(_, _)
ConcatByCompletion(res, order) ==
    IF order = <<>> THEN <<>>
    ELSE res[Head(order)].val \o ConcatByCompletion(res, Tail(order))

(* Parallel(...)(...) returns the tasks' results in the order the tasks    *)
(* were given; np.concatenate(result) joins them in that order.            *)
RECURSIVE ConcatFrom(_, _)
ConcatFrom(res, t) ==
    IF t > Len(res) THEN <<>> ELSE res[t].val \o ConcatFrom(res, t + 1)

Concatenate(res, order) == ConcatFrom(res, 1)

NegAll(s) == [i \in 1..Len(s) |-> RNeg(s[i])]

(* np.percentile(a, 100 * (1 - fpr)), linear interpolation.                *)
Percentile(a) ==
    LET s    == SortRat(a)
        n    == Len(s)
        num  == (n - 1) * (FprDen - FprNum)
        lo   == num \div FprDen
        frac == Rat(num - lo * FprDen, FprDen)
        hi   == IF lo + 1 > n - 1 THEN n - 1 ELSE lo + 1
    IN  RAdd(s[lo + 1], RMul(frac, RSub(s[hi + 1], s[lo + 1])))

IdleJob == [active |-> FALSE, op |-> "none", isNone |-> FALSE, X |-> <<>>,
            ind |-> <<>>, slices |-> <<>>, res |-> <<>>, order |-> <<>>]

NoOutcome == [op |-> "none", kind |-> "none", value |-> <<>>, isNone |-> FALSE,
              X |-> <<>>, hasInd |-> FALSE, ind |-> <<>>, order |-> <<>>,
              npos |-> 0, kw |-> {}]

Unfitted == [fitted |-> FALSE, X |-> <<>>, has_thr |-> FALSE, threshold_ |-> NaN]

Raise(op, kind, isNone, X) ==
    [NoOutcome EXCEPT !.op = op, !.kind = kind, !.isNone = isNone, !.X = X]

(* anomaly_score up to the dispatch of the tasks, on engine e: kneighbors, *)
(* X = X_ when X is None, the slices.  Sets job' and outcome'.             *)
StartScore(e, op, isNone, X0, tb) ==
    IF ~e.fitted
    THEN /\ outcome' = Raise(op, "NotFittedError", isNone, X0)
         /\ job' = IdleJob
    ELSE IF ~KNeighborsOk(e.X, isNone, abod_k)
    THEN /\ outcome' = Raise(op, "ValueError_n_neighbors", isNone, X0)
         /\ job' = IdleJob
    ELSE LET ind == kneighbors(e.X, isNone, X0, abod_k, tb)
             X   == IF isNone THEN e.X ELSE X0
         IN  IF ~GenSlicesOk(Len(X), n_jobs)
             THEN /\ outcome' = [Raise(op, "ValueError_n_packs", isNone, X)
                                    EXCEPT !.hasInd = TRUE, !.ind = ind]
                  /\ job' = IdleJob
             ELSE LET sl == gen_even_slices(Len(X), n_jobs)
                  IN  /\ outcome' = NoOutcome
                      /\ job' = [active |-> TRUE, op |-> op, isNone |-> isNone,
                                 X |-> X, ind |-> ind, slices |-> sl,
                                 res |-> [t \in 1..Len(sl) |->
                                            [state |-> "pending", val |-> <<>>]],
                                 order |-> <<>>]

(* fit(X): self._knn.fit(X), then anomaly_score() on the training set.     *)
ABOD_fit(X, tb) ==
    /\ ~job.active
    /\ abod' = [abod EXCEPT !.fitted = TRUE, !.X = X]
    /\ StartScore(abod', "fit", TRUE, <<>>, tb)
    /\ UNCHANGED <<n_jobs, abod_k, abod_fit_ok>>

(* anomaly_score(X), X given or None.                                      *)
ABOD_anomaly_score(isNone, X, tb) ==
    /\ ~job.active
    /\ StartScore(abod, "anomaly_score", isNone, X, tb)
    /\ UNCHANGED <<abod, n_jobs, abod_k, abod_fit_ok>>

(* One task of Parallel: _abof(self.X_, X[s], ind[s]) on its slice.        *)
ABOD_task(t) ==
    /\ job.active
    /\ t \in 1..Len(job.slices)
    /\ job.res[t].state = "pending"
    /\ LET r == Abof(abod.X, SubSeqOf(job.X, job.slices[t]),
                     SubSeqOf(job.ind, job.slices[t]))
       IN  job' = [job EXCEPT
                     !.res[t] = [state |-> IF r.raised THEN "raised" ELSE "done",
                                 val |-> r.val],
                     !.order = Append(@, t)]
    /\ UNCHANGED <<abod, n_jobs, abod_k, outcome, abod_fit_ok>>

TasksRaised == \E t \in 1..Len(job.res) : job.res[t].state = "raised"
TasksDone == \A t \in 1..Len(job.res) : job.res[t].state = "done"

(* Parallel returns or re-raises; the FloatingPointError becomes the       *)
(* ValueError; fit sets threshold_ from the scores.                        *)
ABOD_return ==
    /\ job.active
    /\ TasksRaised \/ TasksDone
    /\ LET base == [NoOutcome EXCEPT !.op = job.op, !.isNone = job.isNone,
                       !.X = job.X, !.hasInd = TRUE, !.ind = job.ind,
                       !.order = job.order]
           score == NegAll(Concatenate(job.res, job.order))
       IN  IF TasksRaised
           THEN /\ outcome' = [base EXCEPT !.kind = "ValueError_training_samples"]
                /\ UNCHANGED <<abod, abod_fit_ok>>
           ELSE IF job.op = "fit"
           THEN /\ abod' = [abod EXCEPT !.has_thr = TRUE,
                                        !.threshold_ = Percentile(score)]
                /\ abod_fit_ok' = TRUE
                /\ outcome' = [base EXCEPT !.kind = "ok"]
           ELSE /\ outcome' = [base EXCEPT !.kind = "ok", !.value = score]
                /\ UNCHANGED <<abod, abod_fit_ok>>
    /\ job' = IdleJob
    /\ UNCHANGED <<n_jobs, abod_k>>

(* def score(X, y=None) has no self parameter.  A call inst.score(...)     *)
(* passes inst first: Python binds the 1 + npos positional arguments to    *)
(* the parameters in order, then the keywords.                             *)
ScoreParams == <<"X", "y">>

BindScore(npos, kw) ==
    IF 1 + npos > Len(ScoreParams) THEN "TypeError"
    ELSE IF \E i \in 1..(1 + npos) : ScoreParams[i] \in kw THEN "TypeError"
    ELSE "NotImplementedError"

(* inst.score(...) with npos positional arguments and the keywords kw.     *)
ABOD_score(npos, kw) ==
    /\ ~job.active
    /\ outcome' = [NoOutcome EXCEPT !.op = "score", !.kind = BindScore(npos, kw),
                                    !.npos = npos, !.kw = kw]
    /\ UNCHANGED <<abod, n_jobs, abod_k, job, abod_fit_ok>>

-----------------------------------------------------------------------------
(* KNN                                                                     *)

KNN_DataSets == {<<0, 1, 3>>, <<0, 1, 3, 7>>, <<2, 2, 5, 9>>,
                 <<1, 1, 1, 1, 1, 1>>, <<4, 6>>}

NoKnnOut == [op |-> "none", kind |-> "none", X |-> <<>>, train |-> <<>>,
             ind |-> <<>>, value |-> <<>>]

RECURSIVE SumSeq(_)
SumSeq(s) == IF s = <<>> THEN 0 ELSE Head(s) + SumSeq(Tail(s))

MaxSeq(s) == CHOOSE x \in {s[i] : i \in 1..Len(s)} : \A i \in 1..Len(s) : s[i] <= x
MinSeq(s) == CHOOSE x \in {s[i] : i \in 1..Len(s)} : \A i \in 1..Len(s) : x <= s[i]

(* A variant that never takes the training-set branch.                     *)
array_equal_never(X, fitX) == FALSE

(* np.array_equal(X, self.X_)                                              *)
array_equal(X, fitX) == X = fitX

(* KNN._fit(X): self._knn = NearestNeighbors(...).fit(X)                   *)
KNN_fit(X) ==
    /\ knn' = [fitted |-> TRUE, X |-> X]
    /\ knn_out' = [NoKnnOut EXCEPT !.op = "fit", !.kind = "ok", !.X = X]
    /\ UNCHANGED <<knn_weight, knn_k>>

(* KNN.anomaly_score(X)                                                    *)
KNN_anomaly_score(X, tb) ==
    /\ LET base == [NoKnnOut EXCEPT !.op = "anomaly_score", !.X = X, !.train = knn.X]
           self == array_equal(X, knn.X)
       IN  IF ~knn.fitted
           THEN knn_out' = [base EXCEPT !.kind = "NotFittedError"]
           ELSE IF ~KNeighborsOk(knn.X, self, knn_k)
           THEN knn_out' = [base EXCEPT !.kind = "ValueError_n_neighbors"]
           ELSE LET ind  == kneighbors(knn.X, self, X, knn_k, tb)
                    dist == [r \in 1..Len(X) |->
                               [c \in 1..Len(ind[r]) |-> Dist(knn.X[ind[r][c]], X[r])]]
                IN  knn_out' = [base EXCEPT
                        !.kind = "ok", !.ind = ind,
                        !.value = [r \in 1..Len(X) |->
                                     IF knn_weight THEN SumSeq(dist[r])
                                     ELSE MaxSeq(dist[r])]]
    /\ UNCHANGED <<knn, knn_weight, knn_k>>

-----------------------------------------------------------------------------
(* OneTimeSampling                                                         *)

OTS_TrainSets == {<<0, 3, 5, 9>>, <<1, 4, 8>>, <<2, 6>>}
OTS_QuerySets == {<<2, 7>>, <<4>>}
Instances == {1, 2}

(* numpy's RandomState, reduced to a 16-state linear congruential          *)
(* generator: seeding, and one draw.                                       *)
RngStates == 0..15
RngSeeded(seed) == seed % 16
RngNext(s) == (5 * s + 3) % 16

Swap(x, i, j) == [x EXCEPT ![i] = x[j], ![j] = x[i]]

(* RandomState.shuffle: for i from the last position down, swap x[i] with  *)
(* x[j] for a drawn j <= i.                                                *)
RECURSIVE Shuffle(_, _, _)
Shuffle(x, i, s) ==
    IF i <= 1 THEN [perm |-> x, state |-> s]
    ELSE LET s1 == RngNext(s)
         IN  Shuffle(Swap(x, i, (s1 % i) + 1), i - 1, s1)

(* rnd.choice(n, size=m, replace=False): permutation(n)[:m]                *)
Choice(n, m, s) ==
    LET r == Shuffle([i \in 1..n |-> i], n, s)
    IN  [val |-> SubSeq(r.perm, 1, m), state |-> r.state]

RECURSIVE SortInt(_)
SortInt(s) ==
    IF s = <<>> THEN <<>>
    ELSE LET i == CHOOSE i \in 1..Len(s) : \A j \in 1..Len(s) : s[i] <= s[j]
         IN  <<s[i]>> \o SortInt(DropAt(s, i))

(* A variant that draws from the global generator whatever the seed.       *)
check_random_state_global(kind, seed, own, glob) ==
    [src |-> "global", state |-> glob]

(* sklearn.utils.check_random_state(self.random_state): the global         *)
(* generator for None, a new RandomState(seed) for an int, the instance    *)
(* itself for a RandomState.                                               *)
check_random_state(kind, seed, own, glob) ==
    IF kind = "None" THEN [src |-> "global", state |-> glob]
    ELSE IF kind = "int" THEN [src |-> "fresh", state |-> RngSeeded(seed)]
    ELSE [src |-> "own", state |-> own]

NewOTS == [hasX |-> FALSE, X_ |-> <<>>, hasSampled |-> FALSE, sampled_ |-> <<>>,
           hasMetric |-> FALSE, hist_fit_ok |-> FALSE]

NoOtsOut == [op |-> "none", kind |-> "none", X |-> <<>>, value |-> <<>>]

(* The attributes of an engine, without the history field.                 *)
Attributes(e) == <<e.hasX, e.X_, e.hasSampled, e.sampled_, e.hasMetric>>

(* OneTimeSampling._fit(X) on instance i                                   *)
OTS_fit(i, X) ==
    LET n == Len(X)
    IN  IF ots_m >= n
        THEN /\ ots' = [ots EXCEPT ![i].hasX = TRUE, ![i].X_ = X,
                                   ![i].hist_fit_ok = FALSE]
             /\ ots_out' = [ots_out EXCEPT ![i] =
                    [NoOtsOut EXCEPT !.op = "fit", !.kind = "ValueError_n_samples",
                                     !.X = X]]
             /\ UNCHANGED <<ots_m, rs_kind, rs_seed, own_rng, global_rng>>
        ELSE LET rnd     == check_random_state(rs_kind, rs_seed, own_rng[i], global_rng)
                 ch      == Choice(n, ots_m, rnd.state)
                 sampled == SortInt(ch.val)
             IN  /\ ots' = [ots EXCEPT ![i] =
                        [hasX |-> TRUE, X_ |-> X, hasSampled |-> TRUE,
                         sampled_ |-> sampled, hasMetric |-> TRUE,
                         hist_fit_ok |-> TRUE]]
                 /\ own_rng' = IF rnd.src = "own"
                               THEN [own_rng EXCEPT ![i] = ch.state] ELSE own_rng
                 /\ global_rng' = IF rnd.src = "global" THEN ch.state ELSE global_rng
                 /\ ots_out' = [ots_out EXCEPT ![i] =
                        [NoOtsOut EXCEPT !.op = "fit", !.kind = "ok", !.X = X]]
                 /\ UNCHANGED <<ots_m, rs_kind, rs_seed>>

(* OneTimeSampling.anomaly_score(X) on instance i; X_sampled_ is           *)
(* self.X_[self.sampled_], an IndexError when an index is out of range.    *)
OTS_anomaly_score(i, X) ==
    LET e    == ots[i]
        base == [NoOtsOut EXCEPT !.op = "anomaly_score", !.X = X]
    IN  /\ IF ~e.hasMetric
           THEN ots_out' = [ots_out EXCEPT ![i] = [base EXCEPT !.kind = "NotFittedError"]]
           ELSE IF \E c \in 1..Len(e.sampled_) : e.sampled_[c] > Len(e.X_)
           THEN ots_out' = [ots_out EXCEPT ![i] = [base EXCEPT !.kind = "IndexError"]]
           ELSE LET X_sampled_ == [c \in 1..Len(e.sampled_) |-> e.X_[e.sampled_[c]]]
                    value == [r \in 1..Len(X) |->
                                MinSeq([c \in 1..Len(X_sampled_) |->
                                          Dist(X[r], X_sampled_[c])])]
                IN  ots_out' = [ots_out EXCEPT ![i] =
                        [base EXCEPT !.kind = "ok", !.value = value]]
        /\ UNCHANGED <<ots, ots_m, rs_kind, rs_seed, own_rng, global_rng>>

-----------------------------------------------------------------------------
(* Pipeline                                                                *)

Transformers == {"None", "identity", "add1", "double"}
FinalEstimators == {"detector", "plain"}
PipeTrain == <<0, 5>>
Pipe_QuerySets == {<<1, 2>>, <<3>>, <<4, 0, 6>>}

(* est.transform(X).  The detector has a transform of its own.             *)
Transform(est, X) ==
    [r \in 1..Len(X) |->
        IF est = "add1" THEN X[r] + 1
        ELSE IF est = "double" THEN 2 * X[r]
        ELSE IF est = "detector" THEN X[r] + 10
        ELSE X[r]]

(* The final estimator's anomaly_score(X): the distance to the nearest     *)
(* training row, of its own training rows (to another row) when X is None. *)
DetectorScore(isNone, X) ==
    IF isNone
    THEN [r \in 1..Len(PipeTrain) |->
            MinSeq([c \in 1..(Len(PipeTrain) - 1) |->
                      Dist(PipeTrain[r], DropAt(PipeTrain, r)[c])])]
    ELSE [r \in 1..Len(X) |->
            MinSeq([c \in 1..Len(PipeTrain) |-> Dist(X[r], PipeTrain[c])])]

(* A variant that loops over every step, the final estimator included.     *)
AllSteps(st) == st

(* self.steps[:-1]                                                         *)
TransformSteps(st) == SubSeq(st, 1, Len(st) - 1)

(* for _, transform in ...: if transform is not None: X = transform.transform(X) *)
RECURSIVE RunTransforms(_, _, _, _)
RunTransforms(st, i, X, calls) ==
    IF i > Len(st) THEN [X |-> X, calls |-> calls]
    ELSE IF st[i] # "None"
    THEN RunTransforms(st, i + 1, Transform(st[i], X), Append(calls, i))
    ELSE RunTransforms(st, i + 1, X, calls)

NoPipeOut == [kind |-> "none", isNone |-> FALSE, X |-> <<>>, calls |-> <<>>,
              value |-> <<>>]

(* Pipeline.anomaly_score(X), exposed when the final estimator has an      *)
(* anomaly_score (if_delegate_has_method), an AttributeError otherwise.    *)
Pipeline_anomaly_score(isNone, X) ==
    /\ LET base == [NoPipeOut EXCEPT !.isNone = isNone, !.X = X]
           r == IF isNone THEN [X |-> X, calls |-> <<>>]
                ELSE RunTransforms(TransformSteps(steps), 1, X, <<>>)
       IN  IF steps[Len(steps)] # "detector"
           THEN pipe_out' = [base EXCEPT !.kind = "AttributeError"]
           ELSE pipe_out' = [base EXCEPT !.kind = "ok", !.calls = r.calls,
                                         !.value = DetectorScore(isNone, r.X)]
    /\ UNCHANGED steps

-----------------------------------------------------------------------------
(* Initial states and specifications, one per component; a component's     *)
(* specification leaves the other components as constructed.               *)

ABOD_Start ==
    /\ abod = Unfitted
    /\ job = IdleJob
    /\ outcome = NoOutcome
    /\ abod_fit_ok = FALSE

KNN_Start ==
    /\ knn = [fitted |-> FALSE, X |-> <<>>]
    /\ knn_out = NoKnnOut

OTS_Start ==
    /\ ots = [i \in Instances |-> NewOTS]
    /\ ots_out = [i \in Instances |-> NoOtsOut]

Pipe_Start == pipe_out = NoPipeOut

(* The parameters the constructors were given.                             *)
ABOD_Params == n_jobs \in JobsValues /\ abod_k \in 2..MaxK
ABOD_Default == n_jobs = 1 /\ abod_k = 2

KNN_Params == knn_weight \in BOOLEAN /\ knn_k \in 1..MaxK
KNN_Default == knn_weight = FALSE /\ knn_k = 1

(* The state of numpy's global generator is whatever the process left it   *)
(* in; it is read only when random_state is None.                          *)
OTS_Params ==
    /\ ots_m \in 1..MaxSamples
    /\ rs_kind \in {"None", "int", "RandomState"}
    /\ rs_seed \in (IF rs_kind = "None" THEN {0} ELSE 0..MaxSeed)
    /\ own_rng = [i \in Instances |-> RngSeeded(rs_seed)]
    /\ global_rng \in (IF rs_kind = "None" THEN RngStates ELSE {0})
OTS_Default ==
    /\ ots_m = 1 /\ rs_kind = "None" /\ rs_seed = 0
    /\ own_rng = [i \in Instances |-> 0] /\ global_rng = 0

StepLists ==
    UNION {{t \o <<f>> : t \in [1..n -> Transformers], f \in FinalEstimators} :
             n \in 0..MaxSteps}
Pipe_Params == steps \in StepLists
Pipe_Default == steps = <<"detector">>

ABOD_Init ==
    /\ ABOD_Start /\ ABOD_Params
    /\ KNN_Start /\ KNN_Default /\ OTS_Start /\ OTS_Default
    /\ Pipe_Start /\ Pipe_Default

ABOD_Next ==
    \/ \E X \in ABOD_TrainSets, tb \in {"lo", "hi"} :
          ABOD_fit(X, tb) /\ UNCHANGED <<knnVars, otsVars, pipeVars>>
    \/ \E X \in ABOD_QuerySets, tb \in {"lo", "hi"} :
          ABOD_anomaly_score(FALSE, X, tb) /\ UNCHANGED <<knnVars, otsVars, pipeVars>>
    \/ \E tb \in {"lo", "hi"} :
          ABOD_anomaly_score(TRUE, <<>>, tb) /\ UNCHANGED <<knnVars, otsVars, pipeVars>>
    \/ \E t \in 1..MaxJobs :
          ABOD_task(t) /\ UNCHANGED <<knnVars, otsVars, pipeVars>>
    \/ ABOD_return /\ UNCHANGED <<knnVars, otsVars, pipeVars>>
    \/ \E npos \in 0..2, kw \in SUBSET {"y"} :
          ABOD_score(npos, kw) /\ UNCHANGED <<knnVars, otsVars, pipeVars>>

SpecABOD == ABOD_Init /\ [][ABOD_Next]_vars

KNN_Init ==
    /\ KNN_Start /\ KNN_Params
    /\ ABOD_Start /\ ABOD_Default /\ OTS_Start /\ OTS_Default
    /\ Pipe_Start /\ Pipe_Default

KNN_Next ==
    \/ \E X \in KNN_DataSets :
          KNN_fit(X) /\ UNCHANGED <<abodVars, otsVars, pipeVars>>
    \/ \E X \in KNN_DataSets, tb \in {"lo", "hi"} :
          KNN_anomaly_score(X, tb) /\ UNCHANGED <<abodVars, otsVars, pipeVars>>

SpecKNN == KNN_Init /\ [][KNN_Next]_vars

OTS_Init ==
    /\ OTS_Start /\ OTS_Params
    /\ ABOD_Start /\ ABOD_Default /\ KNN_Start /\ KNN_Default
    /\ Pipe_Start /\ Pipe_Default

OTS_Next ==
    \/ \E i \in Instances, X \in OTS_TrainSets :
          OTS_fit(i, X) /\ UNCHANGED <<abodVars, knnVars, pipeVars>>
    \/ \E i \in Instances, X \in OTS_QuerySets :
          OTS_anomaly_score(i, X) /\ UNCHANGED <<abodVars, knnVars, pipeVars>>

SpecOTS == OTS_Init /\ [][OTS_Next]_vars

Pipe_Init ==
    /\ Pipe_Start /\ Pipe_Params
    /\ ABOD_Start /\ ABOD_Default /\ KNN_Start /\ KNN_Default
    /\ OTS_Start /\ OTS_Default

Pipe_Next ==
    \/ \E X \in Pipe_QuerySets :
          Pipeline_anomaly_score(FALSE, X) /\ UNCHANGED <<abodVars, knnVars, otsVars>>
    \/ Pipeline_anomaly_score(TRUE, <<>>) /\ UNCHANGED <<abodVars, knnVars, otsVars>>

SpecPipe == Pipe_Init /\ [][Pipe_Next]_vars

-----------------------------------------------------------------------------
(* Claims about FastABOD, checked under SpecABOD.                          *)

IsPartition(sl, n) ==
    /\ n > 0 => Len(sl) >= 1
    /\ \A t \in 1..Len(sl) : sl[t][1] <= sl[t][2]
    /\ Len(sl) >= 1 => sl[1][1] = 1 /\ sl[Len(sl)][2] = n
    /\ \A t \in 1..(Len(sl) - 1) : sl[t + 1][1] = sl[t][2] + 1

(* C1: anomaly_score returns one score per query row in row order, the     *)
(* same vector the unsliced computation gives, for every n_jobs >= 1 and   *)
(* every completion order of the tasks; the slices are contiguous,         *)
(* disjoint and cover every row once.                                      *)
C1_OrderInvariance ==
    /\ job.active => IsPartition(job.slices, Len(job.X))
    /\ (outcome.op = "anomaly_score" /\ outcome.kind = "ok") =>
          /\ Len(outcome.value) = Len(outcome.X)
          /\ outcome.value = NegAll(Abof(abod.X, outcome.X, outcome.ind).val)

C1_Witness ==
    /\ outcome.op = "anomaly_score" /\ outcome.kind = "ok"
    /\ abod_fit_ok
    /\ Len(outcome.order) = 3
    /\ outcome.order[1] > outcome.order[2]
    /\ outcome.value[1] # outcome.value[2]
    /\ outcome.value[2] # outcome.value[3]

Coincides(o) ==
    \E r \in 1..Len(o.ind) : \E c \in 1..Len(o.ind[r]) : abod.X[o.ind[r][c]] = o.X[r]

(* C7: on a fitted engine with k >= 2, a query row equal to one of its k   *)
(* nearest reference points makes the whole call raise the ValueError      *)
(* 'X must not contain training samples', whatever the slices and the      *)
(* completion order, and no score is returned.                             *)
C7_TrainingSampleRaises ==
    (/\ outcome.op = "anomaly_score" /\ outcome.hasInd
     /\ abod_fit_ok /\ abod_k >= 2
     /\ Coincides(outcome)) =>
        /\ outcome.kind = "ValueError_training_samples"
        /\ outcome.value = <<>>

C7_Witness ==
    /\ outcome.op = "anomaly_score" /\ outcome.hasInd
    /\ abod_fit_ok /\ Coincides(outcome)
    /\ ~outcome.isNone
    /\ outcome.kind = "ValueError_training_samples"
    /\ Len(outcome.order) >= 2

(* C8: with n_jobs = -1 fit and anomaly_score run like with a positive     *)
(* n_jobs: a call that found its neighbours and meets no zero difference   *)
(* vector succeeds, with one score per row.                                *)
C8_AllCores ==
    (/\ n_jobs = -1 /\ outcome.op \in {"fit", "anomaly_score"}
     /\ outcome.hasInd /\ ~Coincides(outcome)) =>
        /\ outcome.kind = "ok"
        /\ outcome.op = "anomaly_score" => Len(outcome.value) = Len(outcome.X)

(* C3: anomaly_score on an engine on which no fit has succeeded raises     *)
(* NotFittedError, whatever X is, and returns no score.                    *)
C3_NotFittedBeforeFit ==
    (outcome.op = "anomaly_score" /\ ~abod_fit_ok) =>
        outcome.kind = "NotFittedError" /\ outcome.value = <<>>

(* C9: score(X) and score(X, y) on a FastABOD instance always raise        *)
(* NotImplementedError.                                                    *)
C9_ScoreNotImplemented ==
    (outcome.op = "score" /\ outcome.npos + Cardinality(outcome.kw) \in {1, 2}
        /\ outcome.npos >= 1) =>
        outcome.kind = "NotImplementedError"

-----------------------------------------------------------------------------
(* Claims about KNN, checked under SpecKNN.                                *)

(* C4: when the training set is scored, the k neighbours whose distances   *)
(* are aggregated (max, or sum when weight is set) are reference rows      *)
(* other than the row itself, so a training row that has no duplicate      *)
(* never scores 0.                                                         *)
C4_SelfExcluded ==
    (/\ knn_out.op = "anomaly_score" /\ knn_out.kind = "ok"
     /\ knn_out.X = knn_out.train) =>
        \A r \in 1..Len(knn_out.X) :
            LET nb == knn_out.ind[r]
                d  == [c \in 1..Len(nb) |-> Dist(knn_out.train[nb[c]], knn_out.X[r])]
            IN  /\ Len(nb) = knn_k
                /\ \A c \in 1..Len(nb) : nb[c] # r
                /\ \A c1, c2 \in 1..Len(nb) : c1 # c2 => nb[c1] # nb[c2]
                /\ knn_out.value[r] = IF knn_weight THEN SumSeq(d) ELSE MaxSeq(d)
                /\ (\A j \in 1..Len(knn_out.train) :
                        j # r => knn_out.train[j] # knn_out.X[r])
                     => knn_out.value[r] > 0

C4_Witness ==
    /\ knn_out.op = "anomaly_score" /\ knn_out.kind = "ok"
    /\ knn_out.X = knn_out.train
    /\ knn_k >= 2 /\ knn_weight
    /\ \A r \in 1..Len(knn_out.X) : knn_out.value[r] > 0

-----------------------------------------------------------------------------
(* Claims about OneTimeSampling, checked under SpecOTS.                    *)

SameSampleAndScores ==
    \A i, j \in Instances :
        (ots[i].hist_fit_ok /\ ots[j].hist_fit_ok /\ ots[i].X_ = ots[j].X_) =>
            /\ ots[i].sampled_ = ots[j].sampled_
            /\ (/\ ots_out[i].op = "anomaly_score" /\ ots_out[i].kind = "ok"
                /\ ots_out[j].op = "anomaly_score" /\ ots_out[j].kind = "ok"
                /\ ots_out[i].X = ots_out[j].X)
                  => ots_out[i].value = ots_out[j].value

(* C5, as stated: fits with the same seed (a random_state that is not      *)
(* None) on the same reference set give the same sampled_, and the same    *)
(* scores for the same query, the first fit of one instance and any later  *)
(* fit of the other included.                                              *)
C5_SameRandomState == rs_kind # "None" => SameSampleAndScores

(* C5, amended: the same holds when random_state is an int.                *)
C5_SameIntSeed == rs_kind = "int" => SameSampleAndScores

C5_Witness ==
    /\ rs_kind = "int"
    /\ ots[1].hist_fit_ok /\ ots[2].hist_fit_ok /\ ots[1].X_ = ots[2].X_
    /\ ots_out[1].op = "anomaly_score" /\ ots_out[1].kind = "ok"
    /\ ots_out[2].op = "anomaly_score" /\ ots_out[2].kind = "ok"
    /\ ots_out[1].X = ots_out[2].X
    /\ ots[1].sampled_ # <<1, 2>>

(* C10: whenever sampled_ is set it is strictly ascending, holds           *)
(* m = n_samples indices with 0 < m < n, each a row index of the stored    *)
(* X_ (n rows).                                                            *)
C10_SampledValid ==
    \A i \in Instances :
        ots[i].hasSampled =>
            LET sm == ots[i].sampled_
                n  == Len(ots[i].X_)
            IN  /\ Len(sm) = ots_m
                /\ 0 < ots_m /\ ots_m < n
                /\ \A c \in 1..Len(sm) : sm[c] \in 1..n
                /\ \A c \in 1..(Len(sm) - 1) : sm[c] < sm[c + 1]

(* C2: a fit that raises leaves the engine's attributes as they were.      *)
C2_FailedFitKeepsState ==
    [][\A i \in Instances :
          (/\ ots_out'[i] # ots_out[i]
           /\ ots_out'[i].op = "fit" /\ ots_out'[i].kind # "ok")
             => Attributes(ots'[i]) = Attributes(ots[i])]_vars

-----------------------------------------------------------------------------
(* Claims about Pipeline, checked under SpecPipe.                          *)

(* The data after the first n steps, None steps skipped.                   *)
RECURSIVE After(_, _, _)
After(st, n, X) ==
    IF n = 0 THEN X
    ELSE IF st[n] = "None" THEN After(st, n - 1, X)
    ELSE Transform(st[n], After(st, n - 1, X))

(* C6: with X given, the result is the final estimator's anomaly_score of  *)
(* X passed through the non-None steps before the last, each once and in   *)
(* order; with X omitted no transform is called; with only identity        *)
(* transforms the scores are the final estimator's own.                    *)
C6_PipelineDelegates ==
    pipe_out.kind = "ok" =>
        LET n == Len(steps) - 1
        IN  IF pipe_out.isNone
            THEN /\ pipe_out.calls = <<>>
                 /\ pipe_out.value = DetectorScore(TRUE, <<>>)
            ELSE /\ pipe_out.calls = SelectSeq([i \in 1..n |-> i],
                                               LAMBDA i : steps[i] # "None")
                 /\ pipe_out.value = DetectorScore(FALSE, After(steps, n, pipe_out.X))
                 /\ (\A i \in 1..n : steps[i] \in {"None", "identity"})
                      => pipe_out.value = DetectorScore(FALSE, pipe_out.X)

C6_Witness ==
    /\ pipe_out.kind = "ok" /\ ~pipe_out.isNone
    /\ Len(steps) = 4
    /\ steps[1] = "add1" /\ steps[2] = "None" /\ steps[3] = "double"
    /\ pipe_out.calls = <<1, 3>>
    /\ pipe_out.value # DetectorScore(FALSE, pipe_out.X)

=============================================================================
